---- MODULE Spec2Model ----
(***************************************************************************)
(* Model of the document-to-JSON extraction pipeline:                      *)
(*   document_extractor_app.py  extract_with_gemini                        *)
(*   pdf_processor.py           process_pdf_folder, process_zip_file       *)
(*   excel_processor.py         process_excel_folder,                      *)
(*                              process_excel_zip_file                     *)
(*                                                                         *)
(* Text is a sequence of one-character strings.  Python dictionaries and   *)
(* JSON values are records [type, text, members].                          *)
(***************************************************************************)
EXTENDS Integers, Sequences, FiniteSets, TLC

(***************************************************************************)
(* Characters                                                              *)
(***************************************************************************)
SP == " "
LF == "\n"
FF == "\f"
\* the backtick character (written as a word: the lexer reserves the symbol)
BT == "BACKTICK"
DQ == "\""

\* str.strip() with no argument removes every character for which
\* str.isspace() holds; the form feed is one of them.
PyWhitespace == {SP, LF, FF}

\* json.decoder.WHITESPACE is [ \t\n\r]*: the form feed is not in it.
JsonWhitespace == {SP, LF}

\* json.decoder scanstring (strict): a literal control character inside a
\* string is rejected.
ControlChars == {LF, FF}

Digits == {"0", "1"}

(***************************************************************************)
(* str methods used by extract_with_gemini                                 *)
(***************************************************************************)
RECURSIVE LStripChars(_, _)
LStripChars(s, chars) ==
    IF s # <<>> /\ Head(s) \in chars THEN LStripChars(Tail(s), chars) ELSE s

RECURSIVE RStripChars(_, _)
RStripChars(s, chars) ==
    IF s # <<>> /\ s[Len(s)] \in chars
    THEN RStripChars(SubSeq(s, 1, Len(s) - 1), chars)
    ELSE s

\* s.strip(chars)
StripChars(s, chars) == RStripChars(LStripChars(s, chars), chars)

\* s.strip()
Strip(s) == StripChars(s, PyWhitespace)

\* s.startswith(p)
StartsWith(s, p) == Len(s) >= Len(p) /\ SubSeq(s, 1, Len(p)) = p

LowerChar(c) ==
    CASE c = "J" -> "j"
      [] c = "S" -> "s"
      [] c = "O" -> "o"
      [] c = "N" -> "n"
      [] OTHER -> c

\* s.lower()
Lower(s) == [k \in 1..Len(s) |-> LowerChar(s[k])]

\* s[n:]
DropFirst(s, n) == IF Len(s) <= n THEN <<>> ELSE SubSeq(s, n + 1, Len(s))

(***************************************************************************)
(* JSON values, as json.loads builds them                                  *)
(***************************************************************************)
NoMembers == <<>>

JNumber(lit)  == [type |-> "number",  text |-> lit,     members |-> NoMembers]
JString(txt)  == [type |-> "string",  text |-> txt,     members |-> NoMembers]
JLiteral(lit) == [type |-> "literal", text |-> lit,     members |-> NoMembers]
JObject(m)    == [type |-> "object",  text |-> <<>>,    members |-> m]

\* "k" in d, for a value d that is a dict
HasKey(v, k) == v.type = "object" /\ k \in DOMAIN v.members

Ok(v, n)    == [ok |-> TRUE,  val |-> v,    next |-> n, err |-> ""]
Fail(e, n)  == [ok |-> FALSE, val |-> JLiteral(<<>>), next |-> n, err |-> e]

\* WHITESPACE.match(s, i).end()
RECURSIVE SkipWs(_, _)
SkipWs(s, i) ==
    IF i <= Len(s) /\ s[i] \in JsonWhitespace THEN SkipWs(s, i + 1) ELSE i

CharAt(s, i) == IF i >= 1 /\ i <= Len(s) THEN s[i] ELSE ""

\* index of the closing quote of the string whose first character is at i;
\* 0 when the text ends first, -1 at a literal control character
RECURSIVE StringEnd(_, _)
StringEnd(s, i) ==
    IF i > Len(s) THEN 0
    ELSE IF s[i] = DQ THEN i
    ELSE IF s[i] \in ControlChars THEN -1
    ELSE StringEnd(s, i + 1)

\* scanstring(s, i): i is the index after the opening quote
StringUpTo(s, i, e) ==
    IF e = 0 THEN Fail("Unterminated string starting at", i)
    ELSE IF e = -1 THEN Fail("Invalid control character at", i)
    ELSE Ok(JString(SubSeq(s, i, e - 1)), e + 1)

ScanString(s, i) == StringUpTo(s, i, StringEnd(s, i))

RECURSIVE DigitsEnd(_, _)
DigitsEnd(s, i) ==
    IF i <= Len(s) /\ s[i] \in Digits THEN DigitsEnd(s, i + 1) ELSE i

\* NUMBER_RE = (-?(?:0|[1-9]\d*))(\.\d+)?([eE][-+]?\d+)? , piece by piece:
\* each operator gets the index reached so far and returns the index after
\* its piece (the same index when the optional piece is absent)

\* ([eE][-+]?\d+)? : d is the index of the first digit of the exponent
ExponentDigits(s, i, d) == IF DigitsEnd(s, d) > d THEN DigitsEnd(s, d) ELSE i

ExponentEnd(s, i) ==
    IF CharAt(s, i) \in {"e", "E"}
    THEN ExponentDigits(s, i, IF CharAt(s, i + 1) \in {"+", "-"}
                              THEN i + 2 ELSE i + 1)
    ELSE i

\* (\.\d+)?
FractionEnd(s, i) ==
    IF CharAt(s, i) = "." /\ DigitsEnd(s, i + 1) > i + 1
    THEN DigitsEnd(s, i + 1)
    ELSE i

\* (?:0|[1-9]\d*) ; 0 when there is no digit at i
IntegerEnd(s, i) ==
    IF CharAt(s, i) = "0" THEN i + 1
    ELSE IF CharAt(s, i) \in Digits THEN DigitsEnd(s, i)
    ELSE 0

\* the index after the number that starts at i, or i when none does
NumberTail(s, i, e) == IF e = 0 THEN i ELSE ExponentEnd(s, FractionEnd(s, e))

NumberEnd(s, i) ==
    NumberTail(s, i, IntegerEnd(s, IF CharAt(s, i) = "-" THEN i + 1 ELSE i))

IsAt(s, i, word) ==
    i + Len(word) - 1 <= Len(s) /\ SubSeq(s, i, i + Len(word) - 1) = word

NullWord  == <<"n", "u", "l", "l">>
TrueWord  == <<"t", "r", "u", "e">>
FalseWord == <<"f", "a", "l", "s", "e">>

RECURSIVE ScanOnce(_, _)
RECURSIVE ObjectMembers(_, _, _)

\* JSONObject, after a pair: e is the index of the next non-blank character
AfterPair(s, e, acc) ==
    IF CharAt(s, e) = "}" THEN Ok(JObject(acc), e + 1)
    ELSE IF CharAt(s, e) # "," THEN Fail("Expecting comma delimiter", e)
    ELSE IF CharAt(s, SkipWs(s, e + 1)) # DQ
    THEN Fail("Expecting property name enclosed in double quotes",
              SkipWs(s, e + 1))
    ELSE ObjectMembers(s, SkipWs(s, e + 1) + 1, acc)

\* pairs[key] = value  (a later pair with the same key replaces the earlier)
WithPair(acc, k, v) ==
    [x \in (DOMAIN acc) \cup {k} |-> IF x = k THEN v ELSE acc[x]]

\* JSONObject, after the value v of the pair with the given key
AfterValue(s, key, v, acc) ==
    IF ~v.ok THEN v
    ELSE AfterPair(s, SkipWs(s, v.next), WithPair(acc, key.val.text, v.val))

\* JSONObject, after a key: c is the index of the next non-blank character
AfterKey(s, key, c, acc) ==
    IF CharAt(s, c) # ":" THEN Fail("Expecting colon delimiter", c)
    ELSE AfterValue(s, key, ScanOnce(s, SkipWs(s, c + 1)), acc)

KeyScanned(s, key, acc) ==
    IF ~key.ok THEN key ELSE AfterKey(s, key, SkipWs(s, key.next), acc)

\* the loop of JSONObject: i is the index after the opening quote of a key,
\* acc the pairs read so far
ObjectMembers(s, i, acc) == KeyScanned(s, ScanString(s, i), acc)

\* JSONObject(s, i): i is the index of the first non-blank character after
\* the opening brace
ObjectBody(s, i) ==
    IF CharAt(s, i) = DQ THEN ObjectMembers(s, i + 1, NoMembers)
    ELSE IF CharAt(s, i) = "}" THEN Ok(JObject(NoMembers), i + 1)
    ELSE Fail("Expecting property name enclosed in double quotes", i)

ParseObject(s, i) == ObjectBody(s, SkipWs(s, i))

NumberAt(s, i, e) ==
    IF e > i THEN Ok(JNumber(SubSeq(s, i, e - 1)), e)
    ELSE Fail("Expecting value", i)

\* scanner.py_make_scanner _scan_once, for the characters used here
ScanOnce(s, i) ==
    IF CharAt(s, i) = "" THEN Fail("Expecting value", i)
    ELSE IF CharAt(s, i) = DQ THEN ScanString(s, i + 1)
    ELSE IF CharAt(s, i) = "{" THEN ParseObject(s, i + 1)
    ELSE IF IsAt(s, i, NullWord) THEN Ok(JLiteral(NullWord), i + 4)
    ELSE IF IsAt(s, i, TrueWord) THEN Ok(JLiteral(TrueWord), i + 4)
    ELSE IF IsAt(s, i, FalseWord) THEN Ok(JLiteral(FalseWord), i + 5)
    ELSE NumberAt(s, i, NumberEnd(s, i))

\* JSONDecoder.decode, after raw_decode: nothing but whitespace may follow
Decoded(s, r) ==
    IF ~r.ok THEN r
    ELSE IF SkipWs(s, r.next) # Len(s) + 1
    THEN Fail("Extra data", SkipWs(s, r.next))
    ELSE r

\* json.loads(s)
json_loads(s) == Decoded(s, ScanOnce(s, SkipWs(s, 1)))

(***************************************************************************)
(* extract_with_gemini                                                     *)
(***************************************************************************)
Fence   == <<BT, BT, BT>>
JsonTag == <<"j", "s", "o", "n">>
TagLen  == 4

ErrorKey == <<"e", "r", "r", "o", "r">>
RawKey   == <<"r", "a", "w">>

\* what model.generate_content(prompt) / response.text gives back: a text
\* completion, or an exception (network, authentication, quota, blocked)
Completion(txt) == [ok |-> TRUE,  text |-> txt]
ModelFailure    == [ok |-> FALSE, text |-> <<>>]

\* lines 74-81: strip, then the markdown fence and its language tag
\* lines 80-81: the language tag after the opening fence
Untagged_CaseSensitive(inner) ==
    IF StartsWith(inner, JsonTag)
    THEN Strip(DropFirst(inner, TagLen))
    ELSE inner
Untagged(inner) ==
    IF StartsWith(Lower(inner), JsonTag)
    THEN Strip(DropFirst(inner, TagLen))
    ELSE inner

\* lines 77-78: the markdown fence
Unfenced(stripped) ==
    IF StartsWith(stripped, Fence)
    THEN Untagged(StripChars(stripped, {BT}))
    ELSE stripped

\* lines 74-81: strip, then the markdown fence and its language tag
CleanFences(text) == Unfenced(Strip(text))

\* {"error": f"Failed to parse JSON: {e}", "raw": raw_text}
ErrorRecord(e, raw_text) ==
    JObject((ErrorKey :> JString(<<"Failed to parse JSON: ", e>>))
            @@ (RawKey :> JString(raw_text)))

NoValue == JLiteral(<<>>)

\* One call of extract_with_gemini with the given answer of the model.
\*   raised : the call ended with an exception (line 73 or 74)
\*   calls  : number of model.generate_content calls made
\*   loaded : the text handed to json.loads
\*   parsed : json.loads returned (line 84) rather than raised (line 86)
\*   value  : the returned object

\* lines 83-86, r being what json.loads(raw_text) did
Returned(text, raw_text, r) ==
    [raised |-> FALSE, calls |-> 1, loaded |-> raw_text, parsed |-> r.ok,
     value  |-> IF r.ok THEN r.val ELSE ErrorRecord(r.err, raw_text)]

\* lines 83-86 on the cleaned text raw_text of the answer text
Loaded(text, raw_text) == Returned(text, raw_text, json_loads(raw_text))

\* line 73 raised: no value is returned
ModelCallRaised ==
    [raised |-> TRUE, calls |-> 1, loaded |-> <<>>, parsed |-> FALSE,
     value |-> NoValue]

Returned_RawUncleaned(text, raw_text, r) ==
    [raised |-> FALSE, calls |-> 1, loaded |-> raw_text, parsed |-> r.ok,
     value  |-> IF r.ok THEN r.val ELSE ErrorRecord(r.err, text)]
Loaded_RawUncleaned(text, raw_text) ==
    Returned_RawUncleaned(text, raw_text, json_loads(raw_text))
extract_with_gemini_RawUncleaned(response) ==
    IF ~response.ok THEN ModelCallRaised
    ELSE Loaded_RawUncleaned(response.text, CleanFences(response.text))
extract_with_gemini_SwallowsFailure(response) ==
    IF ~response.ok
    THEN [raised |-> FALSE, calls |-> 1, loaded |-> <<>>, parsed |-> FALSE,
          value |-> ErrorRecord("model call failed", <<>>)]
    ELSE Loaded(response.text, CleanFences(response.text))
extract_with_gemini(response) ==
    IF ~response.ok THEN ModelCallRaised
    ELSE Loaded(response.text, CleanFences(response.text))

NotCalled ==
    [raised |-> FALSE, calls |-> 0, loaded |-> <<>>, parsed |-> FALSE,
     value |-> NoValue]

(***************************************************************************)
(* State                                                                   *)
(***************************************************************************)
VARIABLES
    \* one extraction: the text j, how it is fenced, and the two answers
    exJ, exWrap, exBare, exFenced,
    \* one batch call
    pc, func, fs, files, idx, results, errors, report, temp_dir,
    output_files, log

exVars    == <<exJ, exWrap, exBare, exFenced>>
batchVars == <<pc, func, fs, files, idx, results, errors, report, temp_dir,
               output_files, log>>
vars      == <<exJ, exWrap, exBare, exFenced,
               pc, func, fs, files, idx, results, errors, report, temp_dir,
               output_files, log>>

(***************************************************************************)
(* Inputs of one extraction                                                *)
(***************************************************************************)
ObjA       == <<"{", DQ, "a", DQ, ":", "1", "}">>
ObjSpaced  == <<"{", SP, DQ, "a", DQ, SP, ":", LF, "1", SP, "}">>
ObjError   == <<"{", DQ, "e", "r", "r", "o", "r", DQ, ":", DQ, "n", "o", DQ,
                ",", DQ, "r", "a", "w", DQ, ":", DQ, "n", "o", DQ, "}">>
ObjEmpty   == <<"{", "}">>
NumExp     == <<"1", "e", "1">>
StrJson    == <<DQ, "j", "s", "o", "n", DQ>>
NullText   == <<"n", "u", "l", "l">>
NotJson    == <<"n", "o", "t", SP, "j", "s", "o", "n">>
Truncated  == <<"{", DQ, "a", DQ, ":">>
ExtraData  == <<"{", "}", "}">>
FormFeedIn == <<"{", FF, DQ, "a", DQ, ":", "1", "}">>
EmptyText  == <<>>

\* texts the model may answer with
JTexts == {ObjA, ObjSpaced, ObjError, ObjEmpty, NumExp, StrJson, NullText,
           NotJson, Truncated, ExtraData, FormFeedIn, EmptyText}

\* whitespace that may stand in each gap of a fenced answer
Pads == {<<>>, <<LF>>, <<FF>>}

Tags == {<<>>, JsonTag, <<"J", "S", "O", "N">>, <<"J", "s", "o", "n">>}

\* the ways an answer is fenced:  pre ``` mid1 tag mid2 j post1 ``` post2
Wraps == [pre : Pads, mid1 : Pads, tag : Tags, mid2 : Pads, post1 : Pads,
          close : {Fence, <<>>}, post2 : Pads]

NoWrap == [pre |-> <<>>, mid1 |-> <<>>, tag |-> <<>>, mid2 |-> <<>>,
           post1 |-> <<>>, close |-> <<>>, post2 |-> <<>>]

Wrap(j, w) ==
    w.pre \o Fence \o w.mid1 \o w.tag \o w.mid2 \o j \o w.post1 \o w.close
          \o w.post2

\* the answer j itself, with the same outer whitespace
Bare(j, w) == w.pre \o j \o w.post2

NoCall == [called |-> FALSE, response |-> ModelFailure, out |-> NotCalled]

CallOf(response) ==
    [called |-> TRUE, response |-> response,
     out |-> extract_with_gemini(response)]

(***************************************************************************)
(* One batch call: state before the call                                   *)
(***************************************************************************)
NoReport == [returned |-> FALSE]

BatchIdle ==
    /\ pc = "idle"
    /\ func = "none"
    /\ fs = {}
    /\ files = <<>>
    /\ idx = 0
    /\ results = <<>>
    /\ errors = <<>>
    /\ report = NoReport
    /\ temp_dir = "absent"
    /\ output_files = <<>>
    /\ log = <<>>

(***************************************************************************)
(* Specification of single extractions (the single-file path of the app,  *)
(* lines 181 and 261): the model answers j, and the model answers j in a  *)
(* fence                                                                   *)
(***************************************************************************)
ExtractInit ==
    /\ exJ \in JTexts
    /\ exWrap \in Wraps
    /\ exBare = NoCall
    /\ exFenced = NoCall
    /\ BatchIdle

ExtractBare ==
    /\ ~exBare.called
    /\ \E ok \in BOOLEAN :
          exBare' = CallOf(IF ok THEN Completion(Bare(exJ, exWrap))
                                 ELSE ModelFailure)
    /\ UNCHANGED <<exJ, exWrap, exFenced>>
    /\ UNCHANGED batchVars

ExtractFenced ==
    /\ ~exFenced.called
    /\ \E ok \in BOOLEAN :
          exFenced' = CallOf(IF ok THEN Completion(Wrap(exJ, exWrap))
                                   ELSE ModelFailure)
    /\ UNCHANGED <<exJ, exWrap, exBare>>
    /\ UNCHANGED batchVars

ExtractNext == ExtractBare \/ ExtractFenced

ExtractSpec == ExtractInit /\ [][ExtractNext]_vars

(***************************************************************************)
(* Batch processing: pdf_processor.py and excel_processor.py               *)
(***************************************************************************)
MaxFiles == 2

FolderFunctions == {"process_pdf_folder", "process_excel_folder"}
ZipFunctions    == {"process_zip_file", "process_excel_zip_file"}
PdfFunctions    == {"process_pdf_folder", "process_zip_file"}

\* Path("json_output_pdf") / Path("json_output_excel")
OutputDir(f) ==
    IF f \in PdfFunctions THEN "json_output_pdf" ELSE "json_output_excel"

\* the extensions each processor looks for
TargetExts(f) == IF f \in PdfFunctions THEN {".pdf"} ELSE {".xlsx", ".xls"}

\* content of the folder, or of the archive: files by directory, stem and
\* extension
Dirs    == {<<>>, <<"d1", "d2">>}
Stems   == {"a", "b"}
Exts    == {".pdf", ".xlsx", ".xls", ".txt"}
Entries == [dir : Dirs, stem : Stems, ext : Exts]

FileSystems == {S \in SUBSET Entries : Cardinality(S) <= MaxFiles}

\* a path is the sequence of its parts; the last two are stem and suffix
PathOf(root, e) == <<root>> \o e.dir \o <<e.stem, e.ext>>
Stem(path)      == path[Len(path) - 1]
Suffix(path)    == path[Len(path)]
\* Path(f).name
Name(path)      == <<Stem(path), Suffix(path)>>
Depth(path)     == Len(path) - 3

\* all orders in which a listing may enumerate the set S
Enumerations(S) ==
    {q \in [1..Cardinality(S) -> S] :
        \A m, n \in 1..Cardinality(S) : m # n => q[m] # q[n]}

\* glob.glob(os.path.join(folder_path, "*.pdf")), and for spreadsheets the
\* "*.xlsx" matches followed by the "*.xls" matches: only the files that are
\* immediate children of the folder
GlobFolder(f, src) ==
    LET found == {PathOf("folder", e) :
                     e \in {x \in src : x.dir = <<>> /\ x.ext \in TargetExts(f)}}
    IN  {q \in Enumerations(found) :
            \A m, n \in 1..Len(q) :
               (Suffix(q[m]) = ".xlsx" /\ Suffix(q[n]) = ".xls") => m < n}

\* os.walk(temp_dir) with file.lower().endswith(...): every directory of the
\* extracted tree, a directory's own files before those of its
\* subdirectories
WalkTemp_TopLevelOnly(f, src) ==
    LET found == {PathOf("temp_dir", e) :
                     e \in {x \in src : x.dir = <<>>
                                         /\ x.ext \in TargetExts(f)}}
    IN  {q \in Enumerations(found) :
            \A m, n \in 1..Len(q) : Depth(q[m]) < Depth(q[n]) => m < n}
WalkTemp(f, src) ==
    LET found == {PathOf("temp_dir", e) :
                     e \in {x \in src : x.ext \in TargetExts(f)}}
    IN  {q \in Enumerations(found) :
            \A m, n \in 1..Len(q) : Depth(q[m]) < Depth(q[n]) => m < n}

\* what reading a document gives: an exception, or its text
DocTexts     == {<<>>, <<SP, LF>>, <<"I", "N", "V">>}
ReadOutcomes == {[ok |-> FALSE, text |-> <<>>]}
                  \cup {[ok |-> TRUE, text |-> t] : t \in DocTexts}

\* what the model answers in a batch
BatchResponses == {ModelFailure, Completion(ObjA), Completion(NotJson)}

\* open(json_path, 'w') and json.dump: both succeed, open raises, or
\* json.dump raises after open has truncated the file
WriteOutcomes == {"ok", "open_fails", "dump_fails"}

PartialFile == [type |-> "partial", text |-> <<>>, members |-> NoMembers]

NoDetail == [msg |-> "", path |-> <<>>]

\* extract_text_from_pdf_path / extract_text_from_excel_path, except branch:
\* the message of the exception raised names the path that was read
ReadError(f, path) ==
    [msg  |-> IF f \in PdfFunctions THEN "Error reading PDF"
                                    ELSE "Error reading Excel file",
     path |-> path]

ModelError == [msg |-> "model call failed", path |-> <<>>]

WriteError(json_path) == [msg |-> "cannot write", path |-> json_path]

\* the "file_name" of a result row
FileName(f, path) ==
    IF f \in PdfFunctions THEN <<Stem(path), ".pdf">>
                          ELSE <<Stem(path), Suffix(path)>>

\* the name inside the per-file error message
ErrorName(f, path) ==
    IF f \in PdfFunctions THEN <<Stem(path), ".pdf">> ELSE <<Stem(path)>>

NotApplicable == <<"N/A">>

SuccessRow(f, path) ==
    [file_name |-> FileName(f, path), json_file |-> <<Stem(path), ".json">>,
     status |-> [kind |-> "Success", detail |-> NoDetail]]

NoDataRow(f, path) ==
    [file_name |-> FileName(f, path), json_file |-> NotApplicable,
     status |-> [kind |-> "NoData", detail |-> NoDetail]]

SaveErrorRow(f, path, e) ==
    [file_name |-> FileName(f, path), json_file |-> <<Stem(path), ".json">>,
     status |-> [kind |-> "Error", detail |-> e]]

ErrorRow(f, path, e) ==
    [file_name |-> FileName(f, path), json_file |-> NotApplicable,
     status |-> [kind |-> "Error", detail |-> e]]

ErrorEntry(prefix, name, e) == [prefix |-> prefix, name |-> name, detail |-> e]

\* the file f[k] := v
Written(f, k, v) == [x \in (DOMAIN f) \cup {k} |-> IF x = k THEN v ELSE f[x]]

LogEntry(path, rd, call, wr) ==
    [path |-> path, read |-> rd, call |-> call, write |-> wr]

\* "if text.strip():" is false
IsBlank_NoStrip(text) == text = <<>>
IsBlank(text) == Strip(text) = <<>>

JsonPath(f, path) == <<OutputDir(f), Stem(path), ".json">>

\* outer except, reached from the read
ReadFailed_NoRow(f, path, rd, outfiles) ==
    [rows  |-> <<>>,
     errs  |-> <<ErrorEntry("Error processing", ErrorName(f, path),
                            ReadError(f, path))>>,
     output_files |-> outfiles,
     entry |-> LogEntry(path, rd, NoCall, "none")]
ReadFailed(f, path, rd, outfiles) ==
    [rows  |-> <<ErrorRow(f, path, ReadError(f, path))>>,
     errs  |-> <<ErrorEntry("Error processing", ErrorName(f, path),
                            ReadError(f, path))>>,
     output_files |-> outfiles,
     entry |-> LogEntry(path, rd, NoCall, "none")]

\* else branch of "if text.strip():"
NoData(f, path, rd, outfiles) ==
    [rows  |-> <<NoDataRow(f, path)>>,
     errs  |-> <<>>,
     output_files |-> outfiles,
     entry |-> LogEntry(path, rd, NoCall, "none")]

\* outer except, reached from extract_with_gemini_func
ModelFailed(f, path, rd, call, outfiles) ==
    [rows  |-> <<ErrorRow(f, path, ModelError)>>,
     errs  |-> <<ErrorEntry("Error processing", ErrorName(f, path),
                            ModelError)>>,
     output_files |-> outfiles,
     entry |-> LogEntry(path, rd, call, "none")]

\* inner try: the file is written
Saved(f, path, rd, call, outfiles) ==
    [rows  |-> <<SuccessRow(f, path)>>,
     errs  |-> <<>>,
     output_files |-> Written(outfiles, JsonPath(f, path), call.out.value),
     entry |-> LogEntry(path, rd, call, "ok")]

\* inner except: open raised, or json.dump raised after open truncated the
\* file
SaveFailed_NoErrorEntry(f, path, rd, call, wr, outfiles) ==
    [rows  |-> <<SaveErrorRow(f, path, WriteError(JsonPath(f, path)))>>,
     errs  |-> <<>>,
     output_files |-> IF wr = "dump_fails"
                      THEN Written(outfiles, JsonPath(f, path), PartialFile)
                      ELSE outfiles,
     entry |-> LogEntry(path, rd, call, wr)]
SaveFailed(f, path, rd, call, wr, outfiles) ==
    [rows  |-> <<SaveErrorRow(f, path, WriteError(JsonPath(f, path)))>>,
     errs  |-> <<ErrorEntry("Error saving JSON for", ErrorName(f, path),
                            WriteError(JsonPath(f, path)))>>,
     output_files |-> IF wr = "dump_fails"
                      THEN Written(outfiles, JsonPath(f, path), PartialFile)
                      ELSE outfiles,
     entry |-> LogEntry(path, rd, call, wr)]

\* the rest of the try block once extract_with_gemini_func has been called
AfterCall(f, path, rd, call, wr, outfiles) ==
    IF call.out.raised THEN ModelFailed(f, path, rd, call, outfiles)
    ELSE IF wr = "ok" THEN Saved(f, path, rd, call, outfiles)
    ELSE SaveFailed(f, path, rd, call, wr, outfiles)

\* One iteration of the for loop (pdf_processor.py 57-102 and 152-197,
\* excel_processor.py 95-140 and 192-237) on the file at path, given what
\* reading, the model and writing do.  rows and errs are what the iteration
\* appends to results and errors; entry records what the iteration did.
LoopBody(f, path, rd, response, wr, outfiles) ==
    IF ~rd.ok THEN ReadFailed(f, path, rd, outfiles)
    ELSE IF IsBlank(rd.text) THEN NoData(f, path, rd, outfiles)
    ELSE AfterCall(f, path, rd, CallOf(response), wr, outfiles)

\* leaving the block "with tempfile.TemporaryDirectory() as temp_dir"
TemporaryDirectoryExit_Leak(t) == t
TemporaryDirectoryExit(t) == IF t = "exists" THEN "removed" ELSE t

Report(ok, rows, errs, total, found) ==
    [returned |-> TRUE, success |-> ok, results |-> rows, errors |-> errs,
     total_files |-> total, files_found |-> found]

\* the report returned when the batch as a whole fails (no files, invalid
\* archive, any other exception around the archive)
FailureReport_NoErrorEntry(prefix, name) ==
    Report(FALSE, <<>>, <<>>, 0, <<>>)
FailureReport(prefix, name) ==
    Report(FALSE, <<>>, <<ErrorEntry(prefix, name, NoDetail)>>, 0, <<>>)

\* the report returned after the loop
FinalReport_SuccessIfAnyRow(f, located, rows, errs) ==
    Report(Len(rows) > 0, rows, errs, Len(located),
           IF f \in ZipFunctions
           THEN [k \in 1..Len(located) |-> Name(located[k])]
           ELSE located)
FinalReport(f, located, rows, errs) ==
    Report(Len(errs) = 0, rows, errs, Len(located),
           IF f \in ZipFunctions
           THEN [k \in 1..Len(located) |-> Name(located[k])]
           ELSE located)

NoFilesMessage(f) ==
    CASE f = "process_pdf_folder"     -> "No PDF files found in folder"
      [] f = "process_zip_file"       ->
            "No PDF files found in the uploaded zip file."
      [] f = "process_excel_folder"   -> "No Excel files found in folder"
      [] f = "process_excel_zip_file" ->
            "No Excel files found in the uploaded zip file."

(***************************************************************************)
(* Actions of a batch call                                                 *)
(***************************************************************************)
Init ==
    /\ exJ = EmptyText
    /\ exWrap = NoWrap
    /\ exBare = NoCall
    /\ exFenced = NoCall
    /\ BatchIdle

\* output_dir.mkdir(exist_ok=True) raises (the name is taken by a file, or
\* the directory cannot be created): the exception leaves the call
MkdirFails ==
    /\ pc = "idle"
    /\ \E f \in FolderFunctions \cup ZipFunctions : func' = f
    /\ pc' = "raised"
    /\ UNCHANGED <<fs, files, idx, results, errors, report, temp_dir,
                   output_files, log>>
    /\ UNCHANGED exVars

\* process_pdf_folder / process_excel_folder up to the loop
CallFolder ==
    /\ pc = "idle"
    /\ \E f \in FolderFunctions, src \in FileSystems :
       \E located \in GlobFolder(f, src) :
          /\ func' = f
          /\ fs' = src
          /\ files' = located
          /\ IF located = <<>>
             THEN /\ report' = FailureReport(NoFilesMessage(f), <<"folder">>)
                  /\ pc' = "returned"
             ELSE /\ report' = report
                  /\ pc' = "loop"
    /\ UNCHANGED <<idx, results, errors, temp_dir, output_files, log>>
    /\ UNCHANGED exVars

\* process_zip_file / process_excel_zip_file up to the loop.  payload says
\* whether the uploaded bytes are an archive (BadZipFile otherwise) and
\* whether saving and extracting them works (any other exception).
CallZip ==
    /\ pc = "idle"
    /\ \E f \in ZipFunctions, src \in FileSystems,
          payload \in {"valid", "bad_zip", "os_error"} :
          /\ func' = f
          /\ IF payload = "bad_zip"
             THEN /\ src = {}
                  /\ fs' = src
                  /\ files' = <<>>
                  /\ report' = FailureReport(
                        "Invalid zip file. Please upload a valid zip archive.",
                        <<>>)
                  /\ temp_dir' = TemporaryDirectoryExit("exists")
                  /\ pc' = "returned"
             ELSE IF payload = "os_error"
             THEN /\ src = {}
                  /\ fs' = src
                  /\ files' = <<>>
                  /\ report' = FailureReport("Error processing zip file",
                                             <<>>)
                  /\ temp_dir' = TemporaryDirectoryExit("exists")
                  /\ pc' = "returned"
             ELSE \E located \in WalkTemp(f, src) :
                  /\ fs' = src
                  /\ files' = located
                  /\ IF located = <<>>
                     THEN /\ report' = FailureReport(NoFilesMessage(f), <<>>)
                          /\ temp_dir' = TemporaryDirectoryExit("exists")
                          /\ pc' = "returned"
                     ELSE /\ report' = report
                          /\ temp_dir' = "exists"
                          /\ pc' = "loop"
    /\ UNCHANGED <<idx, results, errors, output_files, log>>
    /\ UNCHANGED exVars

\* results.append, errors.append and the file written by one iteration
Appended(step) ==
    /\ results' = results \o step.rows
    /\ errors' = errors \o step.errs
    /\ output_files' = step.output_files
    /\ log' = Append(log, step.entry)

\* one iteration of the loop over the located files
ProcessFile ==
    /\ pc = "loop"
    /\ idx < Len(files)
    /\ \E rd \in ReadOutcomes, response \in BatchResponses,
          wr \in WriteOutcomes :
          Appended(LoopBody(func, files[idx + 1], rd, response, wr,
                            output_files))
    /\ idx' = idx + 1
    /\ UNCHANGED <<pc, func, fs, files, report, temp_dir>>
    /\ UNCHANGED exVars

\* the return after the loop; in the zip functions it leaves the with block
ReturnReport ==
    /\ pc = "loop"
    /\ idx = Len(files)
    /\ report' = FinalReport(func, files, results, errors)
    /\ temp_dir' = TemporaryDirectoryExit(temp_dir)
    /\ pc' = "returned"
    /\ UNCHANGED <<func, fs, files, idx, results, errors, output_files, log>>
    /\ UNCHANGED exVars

Next == MkdirFails \/ CallFolder \/ CallZip \/ ProcessFile \/ ReturnReport

Spec == Init /\ [][Next]_vars

(***************************************************************************)
(* Properties of a batch call                                              *)
(***************************************************************************)
\* what happened to a file, read off the record of its iteration
ReadRaised(e)  == ~e.read.ok
OnlySpace(e)   == e.read.ok /\ \A k \in 1..Len(e.read.text) :
                                  e.read.text[k] \in PyWhitespace
ModelRaised(e) == e.call.called /\ ~e.call.response.ok
WriteRaised(e) == e.write \in {"open_fails", "dump_fails"}
StageFailed(e) == ReadRaised(e) \/ ModelRaised(e) \/ WriteRaised(e)

IsErrorRow(row) == row.status.kind = "Error"

ExpectedKind(e) ==
    IF StageFailed(e) THEN "Error"
    ELSE IF OnlySpace(e) THEN "NoData"
    ELSE "Success"

\* C1: a batch that located n >= 1 files returns total_files = n and n
\* outcomes, the k-th being the outcome of the k-th located file and decided
\* by what happened to that file alone, whatever happened to the others.
C1_OneOutcomePerFile ==
    /\ Len(results) = idx /\ Len(log) = idx /\ idx <= Len(files)
    /\ \A k \in 1..Len(results) :
          /\ results[k].file_name = FileName(func, files[k])
          /\ log[k].path = files[k]
          /\ results[k].status.kind = ExpectedKind(log[k])
    /\ (report.returned /\ Len(files) >= 1) =>
          /\ report.total_files = Len(files)
          /\ Len(report.results) = Len(files)
          /\ report.results = results
          /\ idx = Len(files)

\* a batch of two files returned; the first file's read failed and the
\* second file was extracted and saved
C1_Witness ==
    /\ report.returned
    /\ Len(files) = 2
    /\ ReadRaised(log[1])
    /\ report.results[1].status.kind = "Error"
    /\ report.results[2].status.kind = "Success"

\* C2: in every returned report success is true exactly when errors is
\* empty; when no file was found success is false and errors has one entry.
C2_SuccessIffNoErrors ==
    report.returned =>
        /\ report.success <=> (report.errors = <<>>)
        /\ files = <<>> => (~report.success /\ Len(report.errors) = 1)

\* a batch with files returned success = true and no errors
C2_Witness ==
    /\ report.returned
    /\ Len(files) >= 1
    /\ report.success
    /\ report.errors = <<>>

\* C3: a failure in reading, in the model call or in writing does not leave
\* the batch call; it gives that file an Error outcome and one errors entry,
\* and the loop goes on: errors holds exactly one entry per failed file, in
\* order, as many as there are Error outcomes, and none for the others.
C3_PerFileFailuresIsolated ==
    /\ pc = "raised" => (log = <<>> /\ files = <<>>)
    /\ report.returned => idx = Len(files)
    /\ Len(results) = Len(log)
    /\ \A k \in 1..Len(log) : StageFailed(log[k]) <=> IsErrorRow(results[k])
    /\ Len(errors) = Len(SelectSeq(log, StageFailed))
    /\ Len(errors) = Len(SelectSeq(results, IsErrorRow))
    /\ \A j \in 1..Len(errors) :
          /\ errors[j].name = ErrorName(func, SelectSeq(log, StageFailed)[j].path)
          /\ errors[j].detail = SelectSeq(results, IsErrorRow)[j].status.detail

\* a batch returned after the first file's write failed and the second
\* file's model call failed
C3_Witness ==
    /\ report.returned
    /\ Len(files) = 2
    /\ WriteRaised(log[1])
    /\ ModelRaised(log[2])
    /\ Len(report.errors) = 2

\* C4: when nothing is found (no matching file, invalid archive, any other
\* failure around the archive) the call returns a report with success =
\* false, one errors entry, total_files = 0, no outcomes and no files_found,
\* and it has read no file, called no model and written no file.
C4_DiscoveryFailureReported ==
    /\ (pc \notin {"idle", "raised"} /\ files = <<>>) =>
          /\ pc = "returned"
          /\ report.returned
          /\ ~report.success
          /\ Len(report.errors) = 1
          /\ report.total_files = 0
          /\ report.results = <<>>
          /\ report.files_found = <<>>
          /\ log = <<>>
          /\ output_files = <<>>
    /\ pc = "raised" => fs = {}

\* an archive that holds files, none of them of the wanted kind, was
\* processed
C4_Witness ==
    /\ report.returned
    /\ func \in ZipFunctions
    /\ fs # {}
    /\ files = <<>>

\* C5: a file whose text is empty or only whitespace gets the outcome NoData
\* with output name "N/A", without a model call, an output file or an errors
\* entry, and the loop goes on.
C5_BlankStep ==
    (idx' = idx + 1 /\ OnlySpace(log'[idx'])) =>
        /\ results'[idx'].status.kind = "NoData"
        /\ results'[idx'].json_file = NotApplicable
        /\ ~log'[idx'].call.called
        /\ log'[idx'].write = "none"
        /\ errors' = errors
        /\ output_files' = output_files
        /\ pc' = "loop"

C5_BlankIsNoData == [][C5_BlankStep]_vars

\* the first file held only whitespace and the second file was then
\* processed
C5_Witness ==
    /\ Len(log) = 2
    /\ log[1].read.ok
    /\ log[1].read.text = <<SP, LF>>
    /\ results[1].status.kind = "NoData"

\* C9: extract_with_gemini calls the model once; when that call fails the
\* failure leaves extract_with_gemini as an exception and no ErrorRecord is
\* made of it, so that the file gets an Error outcome and no output file; no
\* located file has the model called for it more than once.
C9_State ==
    /\ Len(log) <= Len(files)
    /\ \A k \in 1..Len(log) :
          /\ log[k].path = files[k]
          /\ log[k].call.out.calls = (IF log[k].call.called THEN 1 ELSE 0)
          /\ ModelRaised(log[k]) =>
                /\ log[k].call.out.raised
                /\ log[k].call.out.value = NoValue
                /\ ~HasKey(log[k].call.out.value, ErrorKey)
                /\ results[k].status.kind = "Error"
                /\ results[k].json_file = NotApplicable
                /\ log[k].write = "none"

C9_Step ==
    (idx' = idx + 1 /\ ModelRaised(log'[idx'])) =>
        /\ output_files' = output_files
        /\ Len(errors') = Len(errors) + 1

C9_ModelFailurePropagates == []C9_State /\ [][C9_Step]_vars

\* the model call failed for the first file and answered for the second
C9_Witness ==
    /\ Len(log) = 2
    /\ ModelRaised(log[1])
    /\ log[2].call.called
    /\ log[2].call.response.ok
    /\ results[1].status.kind = "Error"
    /\ results[2].status.kind = "Success"

\* C10: once a call of process_zip_file or process_excel_zip_file has ended,
\* by any return or by an exception, the temporary directory it created no
\* longer exists.
C10_TempDirReleased ==
    /\ pc \in {"returned", "raised"} => temp_dir # "exists"
    /\ (pc = "returned" /\ func \in ZipFunctions) => temp_dir = "removed"
    /\ func \in FolderFunctions => temp_dir = "absent"
    /\ (pc = "loop" /\ func \in ZipFunctions) => temp_dir = "exists"

\* an archive call returned after one of its files failed
C10_Witness ==
    /\ pc = "returned"
    /\ func \in ZipFunctions
    /\ Len(files) >= 1
    /\ report.errors # <<>>
    /\ temp_dir = "removed"

SuccessRows == {k \in 1..Len(results) : results[k].status.kind = "Success"}

\* the output files that hold a complete JSON document
CompleteFiles == {p \in DOMAIN output_files : output_files[p] # PartialFile}

\* C11: when the batch has returned, every file with a Success outcome has
\* its output file <stem>.json in the output directory, holding the result
\* extracted from that very file, and there are as many output files as
\* Success outcomes, also when two located files have the same base name.
C11_OneOutputPerSuccess ==
    report.returned =>
        /\ \A k \in SuccessRows :
              /\ results[k].json_file = <<Stem(files[k]), ".json">>
              /\ JsonPath(func, files[k]) \in DOMAIN output_files
              /\ output_files[JsonPath(func, files[k])] = log[k].call.out.value
        /\ Cardinality(CompleteFiles) = Cardinality(SuccessRows)

\* the files the call has located
Located == {files[k] : k \in 1..Len(files)}

Searched == pc \in {"loop", "returned"}

\* C12: an archive call locates every file of the extracted tree that has a
\* wanted extension, at whatever depth (two directories deep included); a
\* folder call locates only immediate children of the folder, and no file
\* that lies in a subdirectory.
C12_ArchiveRecursiveFolderFlat ==
    /\ (Searched /\ func \in ZipFunctions) =>
          /\ \A e \in fs : e.ext \in TargetExts(func) =>
                              PathOf("temp_dir", e) \in Located
          /\ \A p \in Located :
                \E e \in fs : e.ext \in TargetExts(func)
                              /\ p = PathOf("temp_dir", e)
    /\ (Searched /\ func \in FolderFunctions) =>
          /\ \A p \in Located :
                /\ Depth(p) = 0
                /\ \E e \in fs : e.dir = <<>> /\ e.ext \in TargetExts(func)
                                 /\ p = PathOf("folder", e)
          /\ \A e \in fs : e.dir # <<>> => PathOf("folder", e) \notin Located

\* an archive with one wanted file at the top and one two directories deep:
\* both were located
C12_Witness ==
    /\ Searched
    /\ func \in ZipFunctions
    /\ Len(files) = 2
    /\ \E p \in Located : Depth(p) = 0
    /\ \E p \in Located : Depth(p) = 2

\* the path lies in the temporary directory of the archive call
InTempDir(path) == path # <<>> /\ path[1] = "temp_dir"

\* C13: the report returned by an archive call, whose temporary directory is
\* gone by then, names no path in that directory: not in an outcome's source
\* name, output name or status detail, not in an errors entry, not in
\* files_found; also for files that could not be read.
C13_ReportFreeOfTempPaths ==
    (report.returned /\ func \in ZipFunctions /\ temp_dir = "removed") =>
        /\ \A k \in 1..Len(report.results) :
              /\ ~InTempDir(report.results[k].file_name)
              /\ ~InTempDir(report.results[k].json_file)
              /\ ~InTempDir(report.results[k].status.detail.path)
        /\ \A k \in 1..Len(report.errors) :
              /\ ~InTempDir(report.errors[k].name)
              /\ ~InTempDir(report.errors[k].detail.path)
        /\ \A k \in 1..Len(report.files_found) :
              ~InTempDir(report.files_found[k])

(***************************************************************************)
(* Properties of one extraction                                            *)
(***************************************************************************)
Calls == {exBare, exFenced}

Answered(c) == c.called /\ c.response.ok

\* the returned object is the ErrorRecord of line 86
IsErrorRecord(c) == Answered(c) /\ ~c.out.parsed

\* the returned object is the value json.loads produced (line 84)
IsExtracted(c) == Answered(c) /\ c.out.parsed

\* C6: whatever the model answers, the result is either the extracted value
\* or an ErrorRecord, and the key "error" is in the result exactly when it
\* is the ErrorRecord: no result is an extracted value that also has the
\* shape of an ErrorRecord.
C6_ErrorKeyDistinguishes ==
    \A c \in Calls :
        Answered(c) =>
            /\ ~c.out.raised
            /\ IsExtracted(c) \/ IsErrorRecord(c)
            /\ HasKey(c.out.value, ErrorKey) <=> IsErrorRecord(c)

\* the fenced answer is a valid JSON text inside a closed fence
FencedValidJson ==
    /\ Answered(exBare)
    /\ Answered(exFenced)
    /\ exBare.out.parsed
    /\ exWrap.close = Fence

\* C7 as stated: any whitespace anywhere around the fence, the tag and j
C7_AnyWhitespace ==
    FencedValidJson =>
        /\ exFenced.out.parsed
        /\ exFenced.out.value = exBare.out.value

InJsonWhitespace(pad) == \A k \in 1..Len(pad) : pad[k] \in JsonWhitespace

\* C7 (amended): for a valid JSON text j in a closed triple-backtick fence,
\* with any whitespace around the fenced block, the result equals the
\* result for j alone and is no ErrorRecord, provided that a "json" tag (in
\* any letter case) follows the opening fence immediately, or that there is
\* no tag and only JSON whitespace stands between the fences and j.
C7_FenceStripped ==
    (/\ FencedValidJson
     /\ exWrap.tag # <<>> => exWrap.mid1 = <<>>
     /\ exWrap.tag = <<>> => /\ InJsonWhitespace(exWrap.mid1)
                             /\ InJsonWhitespace(exWrap.mid2)
                             /\ InJsonWhitespace(exWrap.post1))
    => /\ exFenced.out.parsed
       /\ exFenced.out.value = exBare.out.value
       /\ ~IsErrorRecord(exFenced)

\* {"a":1} in a fence tagged JSON, with form feeds around the block and
\* after the tag, gave the same object as {"a":1} alone
C7_Witness ==
    /\ FencedValidJson
    /\ exJ = ObjA
    /\ exWrap.tag = <<"J", "S", "O", "N">>
    /\ exWrap.mid1 = <<>>
    /\ exWrap.mid2 = <<FF>>
    /\ exWrap.pre = <<FF>>
    /\ exWrap.post1 = <<LF>>
    /\ exFenced.out.value = JObject((<<"a">> :> JNumber(<<"1">>)))

\* C8: when the cleaned text is not valid JSON the call does not raise; it
\* returns {error, raw} with error starting with "Failed to parse JSON: "
\* and raw the cleaned text given to the parser: for an unfenced answer the
\* answer without its outer whitespace, for a fence with an adjacent tag the
\* text j inside it.
C8_ParseFailureIsErrorRecord ==
    \A c \in Calls :
        (Answered(c) /\ ~c.out.parsed) =>
            /\ ~c.out.raised
            /\ c.out.value.type = "object"
            /\ DOMAIN c.out.value.members = {ErrorKey, RawKey}
            /\ c.out.value.members[ErrorKey].type = "string"
            /\ c.out.value.members[ErrorKey].text[1] = "Failed to parse JSON: "
            /\ c.out.value.members[RawKey] = JString(c.out.loaded)
            /\ c = exBare => c.out.loaded = exJ
            /\ (c = exFenced /\ exWrap.tag # <<>> /\ exWrap.mid1 = <<>>) =>
                  c.out.loaded = exJ

\* the answer "not json" between form feeds gave an ErrorRecord with raw
\* "not json"
C8_Witness ==
    /\ Answered(exBare)
    /\ exJ = NotJson
    /\ exWrap.pre = <<FF>>
    /\ ~exBare.out.parsed
    /\ exBare.out.value.members[RawKey].text = NotJson

====
